---- MODULE Spec2Model ----
(***************************************************************************)
(* point_count_core.py: manual point counting of grains on a regular grid. *)
(*                                                                         *)
(* Two procedures are modelled:                                            *)
(*   pointcount             - the interactive measurement session          *)
(*                            (specification SpecSession)                  *)
(*   create_save_file_names - the paired output-name generator             *)
(*                            (specification SpecNames)                    *)
(*                                                                         *)
(* Encodings.  Python's None is the empty tuple.  A file name              *)
(* root + add_text + '%i.' % k + ext is the tuple <<root, k, ext>>.  The   *)
(* numpy table is a function row -> column -> value with 0-based indices.  *)
(* View limits of the axes are kept in half pixels, so that matplotlib's   *)
(* image extent (-0.5, w-0.5) is the integer pair <<-1, 2w-1>>.            *)
(***************************************************************************)
EXTENDS Integers, Sequences, FiniteSets, TLC

(* ---------------------------- bounds ----------------------------------- *)
MaxW == 2
MaxH == 3
MaxSpacing == 2
MaxK == 2

None == <<>>

(* The image and spacing of the worked example: 350x250 pixels, spacing 100 *)
ExampleImage == <<350, 250, 100>>

VARIABLES
    (* ---- pointcount ---- *)
    im,          \* im.size = <<w_im, h_im>>
    grid_spacing,
    n_axes,
    savefig,     \* None or a file name
    n_nodes,
    sizes,       \* the result table
    ctr,         \* running node counter
    ri, ci,      \* positions of the two for loops in their ranges (1-based)
    r, c,        \* loop variables
    axlim,       \* [x |-> <<left, right>>, y |-> <<bottom, top>>], half pixels
    presented,   \* every position given to dot.set_data, in order
    lines,       \* the lines plotted on the axes, in order
    failedAt,    \* None, or the <<r, c>> of the 'Failed at' diagnostic
    figSaved,    \* plt.savefig was called
    ret,         \* <<>> while running, <<table>> once pointcount has returned
    pc,
    (* ---- create_save_file_names ---- *)
    disk,        \* the names for which os.path.isfile is true
    image_file,  \* the path handed in as root, as its '.'-separated parts
    ext1, ext2,
    sfn1, sfn2,
    root,        \* the local root after root.split('.')[0]
    ii,
    isfileCalls, \* number of calls of os.path.isfile so far
    names,       \* <<>> while running, <<<<sfn1, sfn2>>>> once returned
    npc

sessionVars == <<im, grid_spacing, n_axes, savefig, n_nodes, sizes, ctr, ri, ci,
                 r, c, axlim, presented, lines, failedAt, figSaved, ret, pc>>
nameVars == <<disk, image_file, ext1, ext2, root, sfn1, sfn2, ii, isfileCalls, names, npc>>
vars == <<sessionVars, nameVars>>

(* ------------------------- pure helpers -------------------------------- *)

(* Python's range(start, stop, step) for step > 0, as a sequence *)
RangeLen(start, stop, step) ==
    IF stop > start THEN (stop - start + step - 1) \div step ELSE 0

(* variant: the range starts at 0 instead of at start *)
RangeFromZero(start, stop, step) ==
    [i \in 1..RangeLen(0, stop, step) |-> (i - 1) * step]

Range(start, stop, step) ==
    [i \in 1..RangeLen(start, stop, step) |-> start + (i - 1) * step]

(* n_nodes = (w_im//grid_spacing) * (h_im//grid_spacing) *)
NNodes(w, h, gs) == (w \div gs) * (h \div gs)

Abs(n) == IF n < 0 THEN -n ELSE n
Max(a, b) == IF a >= b THEN a ELSE b

(* np.sqrt(dx**2 + dy**2), exact on the perfect squares the modelled clicks
   produce; the root lies between max(|dx|, |dy|) and |dx| + |dy| *)
SqrtOfSquares(dx, dy) ==
    CHOOSE s \in Max(Abs(dx), Abs(dy))..(Abs(dx) + Abs(dy)) : s * s = dx * dx + dy * dy

distance(xy1, xy2) == SqrtOfSquares(xy2[1] - xy1[1], xy2[2] - xy1[2])

(* np.zeros((n, cols)) *)
Zeros(n, cols) == [i \in 0..(n - 1) |-> [j \in 0..(cols - 1) |-> 0]]

(* numpy row indexing: -n..n-1 is accepted, negative indices count from the end *)
InBounds(n, i) == i >= -n /\ i < n
RowIndex(n, i) == IF i < 0 THEN i + n ELSE i
SetCell(t, n, i, j, v) == [t EXCEPT ![RowIndex(n, i)][j] = v]

(* ------------------------- pointcount ---------------------------------- *)

(* variant: the counter starts at the first row instead of before it *)
CtrInitZero == 1 - 1

(* ctr = -1 before the loops *)
CtrInit == -1

(* variant: the increment is lost *)
NextCtrStuck(k) == k

(* ctr += 1 *)
NextCtr(k) == k + 1

(* limits = ax.axis() after plt.imshow(im): the full image extent *)
FullExtent(w, h) == [x |-> <<-1, 2 * w - 1>>, y |-> <<2 * h - 1, -1>>]

(* plt.ylim([r+grid_spacing, r-grid_spacing]) *)
SetYLim(view, row, gs) == [view EXCEPT !.y = <<2 * (row + gs), 2 * (row - gs)>>]

(* plt.plot with autoscaling in effect: the view returns to the data extent *)
PlotView(view, extent) == extent

(* ax.axis(limits) *)
AxisSet(view, limits) == limits

(* variant: draw_line without the final ax.axis(limits) *)
DrawLineViewNoRestore(view, extent) == PlotView(view, extent)

(* The view after draw_line: limits = ax.axis(); plt.plot(...); ax.axis(limits) *)
DrawLineView(view, extent) == AxisSet(PlotView(view, extent), view)

(* variant: the figure is saved unconditionally *)
ShouldSaveAlways(target) == TRUE

(* if savefig: *)
ShouldSave(target) == target # None

(* What plt.ginput(2, timeout=0) can hand back while node (col, row) is shown:
   a line across the visible row window, a double click on the node, or a
   malformed capture of 0, 1 or 3 points. *)
GInput(col, row, gs) ==
    { << <<col, row - gs>>, <<col, row + gs>> >>,
      << <<col, row>>, <<col, row>> >>,
      << >>,
      << <<col, row>> >>,
      << <<col, row>>, <<col, row>>, <<col, row>> >> }

Images ==
    {<<w, h, gs>> : w \in 1..MaxW, h \in 1..MaxH, gs \in 1..MaxSpacing}
        \cup {ExampleImage}

FigTargets == {None, <<"img", 1, "png">>}

Rows == Range(grid_spacing, im[2], grid_spacing)
Cols == Range(grid_spacing, im[1], grid_spacing)

NamesIdle ==
    /\ disk = {} /\ image_file = None /\ ext1 = "none" /\ ext2 = "none"
    /\ root = None /\ sfn1 = None /\ sfn2 = None /\ ii = 0
    /\ isfileCalls = 0 /\ names = <<>> /\ npc = "idle"

InitSession ==
    /\ \E d \in Images :
          /\ im = <<d[1], d[2]>>
          /\ grid_spacing = d[3]
    /\ n_axes \in {1, 2}
    /\ savefig \in FigTargets
    /\ n_nodes = NNodes(im[1], im[2], grid_spacing)
    /\ sizes = Zeros(n_nodes, 2 + n_axes)
    /\ ctr = CtrInit
    /\ ri = 1 /\ ci = 1 /\ r = 0 /\ c = 0
    /\ axlim = FullExtent(im[1], im[2])
    /\ presented = <<>>
    /\ lines = <<>>
    /\ failedAt = None
    /\ figSaved = FALSE
    /\ ret = <<>>
    /\ pc = "rows"
    /\ NamesIdle

(* for r in range(grid_spacing, h_im, grid_spacing): plt.ylim(...) *)
NextRow ==
    /\ pc = "rows" /\ ri <= Len(Rows)
    /\ r' = Rows[ri]
    /\ ri' = ri + 1
    /\ ci' = 1
    /\ axlim' = SetYLim(axlim, Rows[ri], grid_spacing)
    /\ pc' = "cols"
    /\ UNCHANGED <<im, grid_spacing, n_axes, savefig, n_nodes, sizes, ctr, c,
                   presented, lines, failedAt, figSaved, ret>>
    /\ UNCHANGED nameVars

(* for c in range(grid_spacing, w_im, grid_spacing): ctr += 1; dot.set_data(c, r) *)
NextNode ==
    /\ pc = "cols" /\ ci <= Len(Cols)
    /\ c' = Cols[ci]
    /\ ci' = ci + 1
    /\ ctr' = NextCtr(ctr)
    /\ presented' = Append(presented, <<Cols[ci], r>>)
    /\ pc' = "pick1"
    /\ UNCHANGED <<im, grid_spacing, n_axes, savefig, n_nodes, sizes, ri, r,
                   axlim, lines, failedAt, figSaved, ret>>
    /\ UNCHANGED nameVars

(* the inner loop is exhausted: back to the outer loop *)
RowDone ==
    /\ pc = "cols" /\ ci > Len(Cols)
    /\ pc' = "rows"
    /\ UNCHANGED <<im, grid_spacing, n_axes, savefig, n_nodes, sizes, ctr, ri, ci,
                   r, c, axlim, presented, lines, failedAt, figSaved, ret>>
    /\ UNCHANGED nameVars

(* except ...: print('Failed at %s, %s' % (r, c)); return sizes *)
Abort(table) ==
    /\ failedAt' = <<r, c>>
    /\ ret' = <<table>>
    /\ pc' = "done"
    /\ UNCHANGED figSaved

(* xy1, xy2 = draw_line(); sizes[ctr,2] = distance(xy1, xy2);
   with n_axes = 1 also sizes[ctr,:2] = c, r *)
Pick1 ==
    /\ pc = "pick1"
    /\ \E xy \in GInput(c, r, grid_spacing) :
          /\ lines' = Append(lines, xy)
          /\ axlim' = DrawLineView(axlim, FullExtent(im[1], im[2]))
          /\ IF Len(xy) # 2 \/ ~InBounds(n_nodes, ctr)
               THEN /\ Abort(sizes)
                    /\ UNCHANGED sizes
               ELSE LET s1 == SetCell(sizes, n_nodes, ctr, 2, distance(xy[1], xy[2]))
                    IN  /\ IF n_axes = 2
                             THEN /\ sizes' = s1
                                  /\ pc' = "pick2"
                             ELSE /\ sizes' = SetCell(SetCell(s1, n_nodes, ctr, 0, c),
                                                      n_nodes, ctr, 1, r)
                                  /\ pc' = "cols"
                        /\ UNCHANGED <<failedAt, ret, figSaved>>
    /\ UNCHANGED <<im, grid_spacing, n_axes, savefig, n_nodes, ctr, ri, ci, r, c,
                   presented>>
    /\ UNCHANGED nameVars

(* xy3, xy4 = draw_line(color='b'); sizes[ctr,3] = distance(xy3, xy4);
   sizes[ctr,:2] = c, r *)
Pick2 ==
    /\ pc = "pick2"
    /\ \E xy \in GInput(c, r, grid_spacing) :
          /\ lines' = Append(lines, xy)
          /\ axlim' = DrawLineView(axlim, FullExtent(im[1], im[2]))
          /\ IF Len(xy) # 2 \/ ~InBounds(n_nodes, ctr)
               THEN /\ Abort(sizes)
                    /\ UNCHANGED sizes
               ELSE LET s2 == SetCell(sizes, n_nodes, ctr, 3, distance(xy[1], xy[2]))
                    IN  /\ sizes' = SetCell(SetCell(s2, n_nodes, ctr, 0, c),
                                            n_nodes, ctr, 1, r)
                        /\ pc' = "cols"
                        /\ UNCHANGED <<failedAt, ret, figSaved>>
    /\ UNCHANGED <<im, grid_spacing, n_axes, savefig, n_nodes, ctr, ri, ci, r, c,
                   presented>>
    /\ UNCHANGED nameVars

(* plt.ginput itself raises (the figure window was closed): nothing is plotted *)
CaptureRaises ==
    /\ pc \in {"pick1", "pick2"}
    /\ Abort(sizes)
    /\ UNCHANGED <<im, grid_spacing, n_axes, savefig, n_nodes, sizes, ctr, ri, ci,
                   r, c, axlim, presented, lines>>
    /\ UNCHANGED nameVars

(* after the loops: ax.axis(limits); if savefig: plt.savefig(...); return sizes *)
Finish ==
    /\ pc = "rows" /\ ri > Len(Rows)
    /\ axlim' = AxisSet(axlim, FullExtent(im[1], im[2]))
    /\ figSaved' = ShouldSave(savefig)
    /\ ret' = <<sizes>>
    /\ pc' = "done"
    /\ UNCHANGED <<im, grid_spacing, n_axes, savefig, n_nodes, sizes, ctr, ri, ci,
                   r, c, presented, lines, failedAt>>
    /\ UNCHANGED nameVars

NextSession ==
    \/ NextRow
    \/ NextNode
    \/ RowDone
    \/ Pick1
    \/ Pick2
    \/ CaptureRaises
    \/ Finish

SpecSession == InitSession /\ [][NextSession]_vars

(* --------------------- create_save_file_names -------------------------- *)

(* for ii in range(2, 1000) *)
RangeStop == 1000

Exts == {"csv", "png", "none"}

(* root.split('.')[0] *)
SplitFirst(path) == Head(path)

(* root + add_text + '%i.' % k + ext *)
FileName(stem, k, ext) == <<stem, k, ext>>

(* os.path.isfile *)
IsFile(name) == name \in disk

(* variant: the equal-extension test is missing *)
NeverSame(e1, e2) == FALSE

(* if ext1 == ext2: return None, None *)
SameExtension(e1, e2) == e1 = e2

(* if ext == 'none': sfn = None *)
Sentinel(name, ext) == IF ext = "none" THEN None ELSE name

(* Files numbered 1..n with one extension: a directory of earlier exports *)
Block(ext, n) == {FileName("img", k, ext) : k \in 1..n}

Disks ==
    (SUBSET {FileName("img", k, e) : k \in 1..MaxK, e \in Exts})
        \cup {Block("csv", RangeStop - 2), Block("csv", RangeStop - 1)}

ImageFiles == {<<"img", "tif">>, <<"img">>}

SessionIdle ==
    /\ im = <<0, 0>> /\ grid_spacing = 1 /\ n_axes = 1 /\ savefig = None
    /\ n_nodes = 0 /\ sizes = <<>> /\ ctr = CtrInit /\ ri = 1 /\ ci = 1
    /\ r = 0 /\ c = 0 /\ axlim = FullExtent(0, 0) /\ presented = <<>>
    /\ lines = <<>> /\ failedAt = None /\ figSaved = FALSE /\ ret = <<>>
    /\ pc = "idle"

InitNames ==
    /\ disk \in Disks
    /\ image_file \in ImageFiles
    /\ ext1 \in Exts
    /\ ext2 \in Exts
    /\ root = None /\ sfn1 = None /\ sfn2 = None /\ ii = 0
    /\ isfileCalls = 0
    /\ names = <<>>
    /\ npc = "start"
    /\ SessionIdle

(* entry: the equal-extension test, then the two first candidates *)
Call ==
    /\ npc = "start"
    /\ IF SameExtension(ext1, ext2)
         THEN /\ names' = << <<None, None>> >>
              /\ npc' = "done"
              /\ UNCHANGED <<root, sfn1, sfn2, ii>>
         ELSE /\ root' = SplitFirst(image_file)
              /\ sfn1' = FileName(SplitFirst(image_file), 1, ext1)
              /\ sfn2' = FileName(SplitFirst(image_file), 1, ext2)
              /\ ii' = 2
              /\ npc' = "loop"
              /\ UNCHANGED names
    /\ UNCHANGED <<disk, image_file, ext1, ext2, isfileCalls>>
    /\ UNCHANGED sessionVars

(* one iteration: if os.path.isfile(sfn1) or os.path.isfile(sfn2): renumber both;
   else: break *)
LoopIter ==
    /\ npc = "loop" /\ ii < RangeStop
    /\ isfileCalls' = isfileCalls + (IF IsFile(sfn1) THEN 1 ELSE 2)
    /\ IF IsFile(sfn1) \/ IsFile(sfn2)
         THEN /\ sfn1' = FileName(root, ii, ext1)
              /\ sfn2' = FileName(root, ii, ext2)
              /\ ii' = ii + 1
              /\ UNCHANGED npc
         ELSE /\ npc' = "post"
              /\ UNCHANGED <<sfn1, sfn2, ii>>
    /\ UNCHANGED <<disk, image_file, ext1, ext2, root, names>>
    /\ UNCHANGED sessionVars

(* the range is exhausted without a break *)
LoopEnd ==
    /\ npc = "loop" /\ ii >= RangeStop
    /\ npc' = "post"
    /\ UNCHANGED <<disk, image_file, ext1, ext2, root, sfn1, sfn2, ii, isfileCalls, names>>
    /\ UNCHANGED sessionVars

(* the 'none' sentinel, then return sfn1, sfn2 *)
Return ==
    /\ npc = "post"
    /\ sfn1' = Sentinel(sfn1, ext1)
    /\ sfn2' = Sentinel(sfn2, ext2)
    /\ names' = << <<Sentinel(sfn1, ext1), Sentinel(sfn2, ext2)>> >>
    /\ npc' = "done"
    /\ UNCHANGED <<disk, image_file, ext1, ext2, root, ii, isfileCalls>>
    /\ UNCHANGED sessionVars

NextNames ==
    \/ Call
    \/ LoopIter
    \/ LoopEnd
    \/ Return

SpecNames == InitNames /\ [][NextNames]_vars

(* ============================ claims =================================== *)

(* the node presented k-th (k from 0), the line picked for its axis a, and the
   record (x, y, axis1[, axis2]) the session owes it *)
NodeAt(k) == presented[k + 1]
LineOf(k, a) == lines[n_axes * k + a]
RecordOf(k) ==
    [j \in 0..(1 + n_axes) |->
        IF j = 0 THEN NodeAt(k)[1]
        ELSE IF j = 1 THEN NodeAt(k)[2]
        ELSE distance(LineOf(k, j - 1)[1], LineOf(k, j - 1)[2])]

AllZero(row) == \A j \in DOMAIN row : row[j] = 0

(* nodes whose captures have all succeeded *)
Completed ==
    IF pc \in {"pick1", "pick2"} \/ failedAt # None
      THEN Len(presented) - 1
      ELSE Len(presented)

(* the grid has no node at all *)
EmptyGrid == im[1] <= grid_spacing \/ im[2] <= grid_spacing

Finished == pc = "done" /\ failedAt = None

(* C1: a session that runs to completion has visited exactly
   floor(w/spacing) * floor(h/spacing) nodes, as many as the table has rows,
   and has left no row of the table unfilled. *)
C1_VisitsEveryAllocatedRow ==
    Finished =>
        /\ Len(presented) = (im[1] \div grid_spacing) * (im[2] \div grid_spacing)
        /\ Len(presented) = n_nodes
        /\ \A k \in DOMAIN sizes : ~AllZero(sizes[k])

(* C2: when a capture fails, the returned table holds the record of every
   node whose captures all succeeded and is all-zero in every other row,
   the row of the node at which the capture failed included. *)
C2_FailedRowStaysZero ==
    (pc = "done" /\ failedAt # None) =>
        \A k \in DOMAIN ret[1] :
            IF k < Completed
              THEN ret[1][k] = RecordOf(k)
              ELSE AllZero(ret[1][k])

(* C3: the nodes are presented in strictly increasing (y, x) order, every x a
   positive multiple of the spacing below the width and every y one below the
   height; on the 350x250 image with spacing 100 the sequence is exactly
   (100,100),(200,100),(300,100),(100,200),(200,200),(300,200). *)
ExampleNodes ==
    << <<100, 100>>, <<200, 100>>, <<300, 100>>,
       <<100, 200>>, <<200, 200>>, <<300, 200>> >>

C3_RowMajorOrder ==
    /\ \A i \in 1..Len(presented) :
          /\ presented[i][1] > 0 /\ presented[i][1] < im[1]
          /\ presented[i][1] % grid_spacing = 0
          /\ presented[i][2] > 0 /\ presented[i][2] < im[2]
          /\ presented[i][2] % grid_spacing = 0
    /\ \A i \in 1..(Len(presented) - 1) :
          \/ presented[i][2] < presented[i + 1][2]
          \/ /\ presented[i][2] = presented[i + 1][2]
             /\ presented[i][1] < presented[i + 1][1]
    /\ (<<im[1], im[2], grid_spacing>> = ExampleImage) =>
          /\ Len(presented) <= Len(ExampleNodes)
          /\ presented = SubSeq(ExampleNodes, 1, Len(presented))
          /\ Finished => presented = ExampleNodes

C3_Witness ==
    /\ Finished
    /\ <<im[1], im[2], grid_spacing>> = ExampleImage
    /\ Len(presented) = 6

(* C6: a failed capture ends the session at once: the step that fails returns
   the table unchanged, presents no node and exports no figure, and no step
   follows it; the figure is exported only by a session that was given a
   target and completed every node of the traversal; the table is returned
   whenever the session ends. *)
C6_AbortIsImmediate ==
    [][ /\ failedAt = None
        /\ failedAt' # None =>
              /\ pc' = "done"
              /\ ret' = <<sizes>>
              /\ presented' = presented
              /\ ~figSaved'
        /\ figSaved' =>
              /\ savefig # None
              /\ failedAt' = None
              /\ Len(presented') = ((im[1] - 1) \div grid_spacing)
                                       * ((im[2] - 1) \div grid_spacing)
              /\ \A k \in 0..(Len(presented') - 1) : sizes'[k] = RecordOf(k)'
        /\ pc' = "done" => ret' = <<sizes'>>
      ]_vars

C6_Witness ==
    /\ pc = "done"
    /\ failedAt # None
    /\ savefig # None
    /\ ~figSaved
    /\ Len(lines) >= 3
    /\ Len(presented) < ((im[1] - 1) \div grid_spacing) * ((im[2] - 1) \div grid_spacing)

(* C8: while a capture is requested for node (x, y) the visible vertical
   window is [y - spacing, y + spacing], also after measurement lines have
   been drawn. *)
C8_WindowBracketsNode ==
    pc \in {"pick1", "pick2"} =>
        LET node == presented[Len(presented)]
        IN  /\ node = <<c, r>>
            /\ axlim.y = <<2 * (node[2] + grid_spacing), 2 * (node[2] - grid_spacing)>>
            /\ axlim.y[2] <= 2 * node[2] /\ 2 * node[2] <= axlim.y[1]

C8_Witness ==
    /\ pc = "pick2"
    /\ Len(lines) >= 3
    /\ Len(lines[Len(lines)]) = 2
    /\ axlim.y # FullExtent(im[1], im[2]).y

(* C9: the k-th completed node is recorded in row k as (x, y, axis1[, axis2]);
   rows of nodes not yet presented are untouched; a written record never
   changes afterwards. *)
C9_Recorded ==
    /\ \A k \in 0..(Completed - 1) : sizes[k] = RecordOf(k)
    /\ \A k \in DOMAIN sizes : k >= Len(presented) => AllZero(sizes[k])

C9_RowPerNode ==
    /\ C9_Recorded
    /\ [][ /\ C9_Recorded'
           /\ \A k \in 0..(Completed - 1) : sizes'[k] = sizes[k] ]_vars

C9_Witness ==
    /\ Finished
    /\ n_axes = 2
    /\ Len(presented) >= 2
    /\ sizes[1] = RecordOf(1)
    /\ sizes[1][2] # 0 /\ sizes[1][3] = 0

(* C10: whenever the table is about to be written the counter satisfies
   0 <= ctr < n_nodes; no cell beyond the counter's row is ever written; and
   with an empty traversal nothing is presented or written. *)
C10_CounterInTable ==
    /\ pc \in {"pick1", "pick2"} => (0 <= ctr /\ ctr < n_nodes)
    /\ ctr < n_nodes
    /\ \A k \in DOMAIN sizes : ~AllZero(sizes[k]) => (0 <= ctr /\ k <= ctr)
    /\ EmptyGrid => (presented = <<>> /\ \A k \in DOMAIN sizes : AllZero(sizes[k]))

C10_Witness ==
    /\ pc = "cols"
    /\ n_nodes > 1
    /\ ctr = n_nodes - 1
    /\ sizes[ctr][0] = c /\ sizes[ctr][1] = r

(* C4: every name create_save_file_names returns for distinct extensions
   names a file that does not exist. *)
C4_ReturnedNamesAreFree ==
    (npc = "done" /\ ext1 # ext2) =>
        \A i \in 1..2 : names[1][i] # None => ~IsFile(names[1][i])

(* C5: the two returned names carry the same counter k, and k is the smallest
   integer >= 1 for which neither candidate exists. *)
C5_SmallestCommonCounter ==
    (npc = "done" /\ ext1 # ext2) =>
        LET k == ii - 1
        IN  /\ \A i \in 1..2 : names[1][i] # None => names[1][i][2] = k
            /\ ~IsFile(FileName(root, k, ext1)) /\ ~IsFile(FileName(root, k, ext2))
            /\ \A j \in 1..(k - 1) :
                  IsFile(FileName(root, j, ext1)) \/ IsFile(FileName(root, j, ext2))

(* C7: a target whose extension is 'none' gets no path while the other target
   still gets a name; identical extensions give (None, None) and the
   filesystem is not consulted. *)
C7_SentinelAndSameExtension ==
    npc = "done" =>
        /\ ext1 = ext2 => (names[1] = <<None, None>> /\ isfileCalls = 0)
        /\ (ext1 # ext2 /\ ext1 = "none") => (names[1][1] = None /\ names[1][2] # None)
        /\ (ext1 # ext2 /\ ext2 = "none") => (names[1][2] = None /\ names[1][1] # None)

C7_Witness ==
    /\ npc = "done"
    /\ ext1 = "none" /\ ext2 = "png"
    /\ names[1][1] = None
    /\ names[1][2] = FileName("img", 2, "png")
    /\ isfileCalls > 0

====
